---- MODULE Spec2Model ----
(***************************************************************************)
(* Model of the GitHub webhook receiver: the signature verifier, the event *)
(* normaliser, the event store (a MongoDB collection with a unique index   *)
(* on request_id), the /webhook ingestion handler, run by several          *)
(* concurrent request workers, and the event queries (EventService and     *)
(* GET /api/events).                                                       *)
(*                                                                         *)
(* Data representation.                                                    *)
(*  - A Python str is a sequence of tokens (<<"a","b","c">>); a token is   *)
(*    one character, or an indivisible piece such as "refs/heads/".        *)
(*  - bytes are sequences of byte values.                                  *)
(*  - A JSON / Python value is a tagged record: [t |-> "null"],            *)
(*    [t |-> "bool", v], [t |-> "num", v], [t |-> "str", v],                *)
(*    [t |-> "list", v], [t |-> "obj", v] and, for datetimes,              *)
(*    [t |-> "datetime", v |-> instant, aware |-> BOOLEAN].                *)
(*  - A raised exception is the value Raise.                               *)
(***************************************************************************)
EXTENDS Integers, Sequences, FiniteSets, TLC

VARIABLES
    secret,      \* app.config['GITHUB_WEBHOOK_SECRET'] (str)
    db,          \* db.mongodb global `db`: "none" or "ready"
    events,      \* the `events` collection: sequence of documents, insertion order
    pc,          \* per worker: position in webhook()
    request,     \* per worker: the HTTP request being handled
    payload,     \* per worker: local `payload`
    event_data,  \* per worker: local `event_data`
    success,     \* per worker: local `success`
    response,    \* per worker: sequence of responses returned (status, message)
    steps,       \* per worker: history of the steps that ran
    saveLog,     \* history of save_event outcomes, in the order they completed
    vf,          \* state of the verify_signature harness
    nz,          \* state of the parse_webhook_event harness
    qs           \* state of the EventService / GET /api/events harness

vars == <<secret, db, events, pc, request, payload, event_data, success,
          response, steps, saveLog, vf, nz, qs>>

pipeVars == <<secret, db, events, pc, request, payload, event_data, success,
              response, steps, saveLog>>

(***************************************************************************)
(* Bounds                                                                  *)
(***************************************************************************)
NumWorkers == 2

Workers == 1..NumWorkers

(***************************************************************************)
(* Python / JSON values                                                    *)
(***************************************************************************)
Raise == [t |-> "raise"]
None == [t |-> "null"]
JBool(b) == [t |-> "bool", v |-> b]
JNum(n) == [t |-> "num", v |-> n]
JStr(s) == [t |-> "str", v |-> s]
JList(s) == [t |-> "list", v |-> s]
JObj(f) == [t |-> "obj", v |-> f]
DateTime(i, aware) == [t |-> "datetime", v |-> i, aware |-> aware]

\* Python truthiness (`not x`, `if x`)
Truthy(x) ==
    CASE x.t = "null" -> FALSE
      [] x.t = "bool" -> x.v
      [] x.t = "num" -> x.v # 0
      [] x.t = "str" -> Len(x.v) > 0
      [] x.t = "list" -> Len(x.v) > 0
      [] x.t = "obj" -> DOMAIN x.v # {}
      [] OTHER -> TRUE

\* dict.get(key, default); AttributeError when x is not a dict
Get(x, key, default) ==
    IF x.t # "obj" THEN Raise
    ELSE IF key \in DOMAIN x.v THEN x.v[key] ELSE default

EmptyDict == JObj(<<>>)

IsRaise(x) == x.t = "raise"

Chars(n) == <<"0", "1", "2", "3", "4", "5", "6", "7", "8", "9">>[n + 1]

RECURSIVE Decimal(_)
Decimal(n) == IF n < 10 THEN <<Chars(n)>> ELSE Decimal(n \div 10) \o <<Chars(n % 10)>>

\* str(x) for the values pr_data.get('number', '') can take
PyStr(x) ==
    CASE x.t = "str" -> x
      [] x.t = "num" -> JStr(Decimal(x.v))
      [] x.t = "null" -> JStr(<<"N", "o", "n", "e">>)
      [] x.t = "bool" -> JStr(IF x.v THEN <<"T", "r", "u", "e">> ELSE <<"F", "a", "l", "s", "e">>)
      [] OTHER -> JStr(<<"<", x.t, ">">>)

\* (mutant) the slice keeps the whole string
Prefix_Whole(s, n) == s

\* s[:n] for a str or list
Prefix(s, n) == SubSeq(s, 1, IF Len(s) < n THEN Len(s) ELSE n)

\* s.replace(old, new), old a single token
RECURSIVE Replace(_, _, _)
Replace(s, old, new) ==
    IF s = <<>> THEN <<>>
    ELSE (IF Head(s) = old THEN new ELSE <<Head(s)>>) \o Replace(Tail(s), old, new)

\* s.startswith(tok), tok a single token
StartsWith(s, tok) == Len(s) > 0 /\ Head(s) = tok

(***************************************************************************)
(* Signature verifier                                                      *)
(***************************************************************************)
HexChars == <<"0", "1", "2", "3", "4", "5", "6", "7", "8", "9",
              "a", "b", "c", "d", "e", "f">>

RECURSIVE Absorb(_, _)
Absorb(h, bytes) ==
    IF bytes = <<>> THEN h
    ELSE Absorb((h * 31 + Head(bytes) + 7) % 256, Tail(bytes))

\* hmac.new(key, msg, sha256).digest(): a keyed digest of msg, one byte wide
HmacDigest(key, msg) == Absorb(Absorb(Absorb(17, key), <<255>>), msg)

\* .hexdigest(): lower-case hex, two characters per byte
HexDigest(n) == <<HexChars[(n \div 16) + 1], HexChars[(n % 16) + 1]>>

\* secret.encode('utf-8') for an ASCII secret: one byte per character
CodePoint(c) == CASE c = "k" -> 107 [] c = "s" -> 115 [] c = "x" -> 120 [] OTHER -> 63

Encode(s) == [i \in 1..Len(s) |-> CodePoint(s[i])]

\* "sha256=" + hash_object.hexdigest()
ExpectedSignature(payload_body, sec) ==
    <<"sha256=">> \o HexDigest(HmacDigest(Encode(sec), payload_body))

\* (mutant) only the length of the header is compared
CompareDigest_Prefix(a, b) == SubSeq(a, 1, Len(b)) = b

\* hmac.compare_digest(a, b) on two str values: equality of the two strings
CompareDigest(a, b) == a = b

\* (mutant) a missing header is let through
verify_signature_AcceptMissing(payload_body, signature_header, sec) ==
    IF sec = <<>> \/ signature_header = <<>> THEN TRUE
    ELSE CompareDigest(ExpectedSignature(payload_body, sec), signature_header)

\* (mutant) no escape hatch for an empty secret
verify_signature_Strict(payload_body, signature_header, sec) ==
    IF signature_header = <<>> THEN FALSE
    ELSE CompareDigest(ExpectedSignature(payload_body, sec), signature_header)

verify_signature(payload_body, signature_header, sec) ==
    IF sec = <<>> THEN TRUE
    ELSE IF signature_header = <<>> THEN FALSE
    ELSE CompareDigest(ExpectedSignature(payload_body, sec), signature_header)

(***************************************************************************)
(* Event normaliser                                                        *)
(***************************************************************************)
\* datetime.fromisoformat on the strings of the model: a date-time token,
\* optionally followed by the UTC offset token; anything else is a ValueError
IsoInstant(tok) ==
    CASE tok = "2024-01-01T00:00:00" -> 10
      [] tok = "2024-01-15T00:00:00" -> 15
      [] tok = "2024-02-01T00:00:00" -> 20
      [] tok = "2024-03-01T00:00:00" -> 30
      [] OTHER -> -1

fromisoformat(s) ==
    IF Len(s) = 1 /\ IsoInstant(s[1]) >= 0 THEN DateTime(IsoInstant(s[1]), FALSE)
    ELSE IF Len(s) = 2 /\ IsoInstant(s[1]) >= 0 /\ s[2] = "+00:00"
         THEN DateTime(IsoInstant(s[1]), TRUE)
    ELSE Raise

\* (mutant) a timestamp that does not parse is replaced by the current time
ParseTimestamp_Lenient(timestamp_str, now) ==
    IF ~Truthy(timestamp_str) \/ timestamp_str.t # "str" THEN DateTime(now, FALSE)
    ELSE LET parsed == fromisoformat(Replace(timestamp_str.v, "Z", <<"+00:00">>)) IN
         IF IsRaise(parsed) THEN DateTime(now, FALSE) ELSE parsed

\* (mutant) every event is stamped with the current time
ParseTimestamp_Now(timestamp_str, now) == DateTime(now, FALSE)

\* datetime.fromisoformat(timestamp_str.replace('Z', '+00:00')) if timestamp_str
\* else datetime.utcnow(); timestamp_str is whatever the payload holds
ParseTimestamp(timestamp_str, now) ==
    IF ~Truthy(timestamp_str) THEN DateTime(now, FALSE)
    ELSE IF timestamp_str.t # "str" THEN Raise
    ELSE fromisoformat(Replace(timestamp_str.v, "Z", <<"+00:00">>))

RefsHeads == "refs/heads/"

parse_push_event_body(pl, now) ==
    LET commits == Get(pl, "commits", JList(<<>>)) IN
    IF IsRaise(commits) THEN Raise
    ELSE IF ~Truthy(commits) THEN None
    ELSE IF commits.t # "list" THEN Raise
    ELSE
    LET commit == commits.v[1]
        ref == Get(pl, "ref", JStr(<<>>))
    IN
    IF ref.t # "str" THEN Raise
    ELSE
    LET branch == IF StartsWith(ref.v, RefsHeads)
                  THEN JStr(Replace(ref.v, RefsHeads, <<>>))
                  ELSE ref
        pusher == Get(pl, "pusher", EmptyDict)
        pusher_name == Get(pusher, "name", JStr(<<>>))
    IN
    IF IsRaise(pusher_name) THEN Raise
    ELSE
    LET commit_author == Get(Get(commit, "author", EmptyDict), "name", JStr(<<>>))
        author == IF ~Truthy(pusher_name) THEN commit_author ELSE pusher_name
        id == Get(commit, "id", JStr(<<>>))
    IN
    IF commit.t # "obj" \/ IsRaise(author) THEN Raise
    ELSE IF id.t \notin {"str", "list"} THEN Raise
    ELSE
    LET commit_hash == [id EXCEPT !.v = Prefix(id.v, 7)]
        timestamp == ParseTimestamp(Get(commit, "timestamp", JStr(<<>>)), now)
    IN
    IF IsRaise(timestamp) THEN Raise
    ELSE JObj([request_id |-> commit_hash,
               author |-> author,
               action |-> JStr(<<"PUSH">>),
               from_branch |-> None,
               to_branch |-> branch,
               timestamp |-> timestamp])

\* (mutant) a push without commits yields an empty event instead of None
parse_push_event_Placeholder(pl, now) ==
    LET r == parse_push_event_body(pl, now) IN
    IF IsRaise(r) THEN None ELSE IF r.t = "null" THEN EmptyDict ELSE r

\* try: ... except Exception: return None
parse_push_event(pl, now) ==
    LET r == parse_push_event_body(pl, now) IN IF IsRaise(r) THEN None ELSE r

\* (mutant) labeled pull requests are processed too
ProcessedActions_WithLabeled ==
    {<<"opened">>, <<"closed">>, <<"synchronize">>, <<"labeled">>}

ProcessedActions == {<<"opened">>, <<"closed">>, <<"synchronize">>}

parse_pull_request_event_body(pl, now) ==
    LET pr_data == Get(pl, "pull_request", EmptyDict)
        action == Get(pl, "action", JStr(<<>>))
    IN
    IF IsRaise(pr_data) THEN Raise
    ELSE IF ~(action.t = "str" /\ action.v \in ProcessedActions) THEN None
    ELSE
    LET from_branch == Get(Get(pr_data, "head", EmptyDict), "ref", JStr(<<>>))
        to_branch == Get(Get(pr_data, "base", EmptyDict), "ref", JStr(<<>>))
        author == Get(Get(pr_data, "user", EmptyDict), "login", JStr(<<>>))
    IN
    IF IsRaise(from_branch) \/ IsRaise(to_branch) \/ IsRaise(author) THEN Raise
    ELSE
    LET pr_id == PyStr(Get(pr_data, "number", JStr(<<>>)))
        is_merged == Get(pr_data, "merged", JBool(FALSE))
        merged_at == Get(pr_data, "merged_at", None)
        merge == Truthy(is_merged) /\ Truthy(merged_at)
        timestamp_str == IF merge THEN merged_at ELSE Get(pr_data, "created_at", JStr(<<>>))
        event_action == IF merge THEN <<"MERGE">> ELSE <<"PULL_REQUEST">>
        timestamp == ParseTimestamp(timestamp_str, now)
    IN
    IF IsRaise(timestamp) THEN Raise
    ELSE JObj([request_id |-> pr_id,
               author |-> author,
               action |-> JStr(event_action),
               from_branch |-> from_branch,
               to_branch |-> to_branch,
               timestamp |-> timestamp])

\* try: ... except Exception: return None
parse_pull_request_event(pl, now) ==
    LET r == parse_pull_request_event_body(pl, now) IN IF IsRaise(r) THEN None ELSE r

parse_webhook_event(pl, event_type, now) ==
    IF event_type = <<"push">> THEN parse_push_event(pl, now)
    ELSE IF event_type = <<"pull_request">> THEN parse_pull_request_event(pl, now)
    ELSE None

(***************************************************************************)
(* Inbound deliveries                                                      *)
(***************************************************************************)
CommitId == <<"a", "b", "c", "d", "e", "f", "1", "2", "3", "4", "5", "6", "7">>

Commit(id, ts, author) ==
    JObj([id |-> JStr(id), timestamp |-> JStr(ts), author |-> JObj([name |-> JStr(author)])])

PushPayload(ref, pusher, commits) ==
    JObj([ref |-> JStr(ref), pusher |-> JObj([name |-> JStr(pusher)]), commits |-> JList(commits)])

PullRequestPayload(action, number, head, base, login, created_at, merged, merged_at) ==
    JObj([action |-> JStr(action),
          pull_request |-> JObj([number |-> JNum(number),
                                 head |-> JObj([ref |-> JStr(head)]),
                                 base |-> JObj([ref |-> JStr(base)]),
                                 user |-> JObj([login |-> JStr(login)]),
                                 created_at |-> JStr(created_at),
                                 merged |-> JBool(merged),
                                 merged_at |-> merged_at])])

PushA ==
    PushPayload(<<RefsHeads, "main">>, <<"alice">>,
                <<Commit(CommitId, <<"2024-01-01T00:00:00", "Z">>, <<"alice">>)>>)

\* the same commit pushed again, to another branch by another pusher
PushA2 ==
    PushPayload(<<RefsHeads, "dev">>, <<"bob">>,
                <<Commit(CommitId, <<"2024-01-15T00:00:00", "Z">>, <<"alice">>)>>)

PushNoCommits == PushPayload(<<RefsHeads, "main">>, <<"alice">>, <<>>)

PrOpened ==
    PullRequestPayload(<<"opened">>, 42, <<"feature">>, <<"main">>, <<"bob">>,
                       <<"2024-01-15T00:00:00", "Z">>, FALSE, None)

PrMerged ==
    PullRequestPayload(<<"closed">>, 42, <<"feature">>, <<"main">>, <<"bob">>,
                       <<"2024-01-15T00:00:00", "Z">>, TRUE,
                       JStr(<<"2024-02-01T00:00:00", "Z">>))

\* json.loads on the request bodies of the model (bytes -> value, or Raise)
json_loads(raw) ==
    CASE raw = <<1>> -> PushA
      [] raw = <<2>> -> PushA2
      [] raw = <<3>> -> PrOpened
      [] raw = <<4>> -> PrMerged
      [] raw = <<5>> -> PushNoCommits
      [] raw = <<7>> -> EmptyDict
      [] OTHER -> Raise

\* the signature a sender holding `key` puts in X-Hub-Signature-256
Sign(key, body) == ExpectedSignature(body, key)

SenderKey == <<"k">>

WrongKey == <<"x">>

\* readable: whether reading the request body (request.data) succeeds
Delivery(event_type, signature, is_json, data, readable) ==
    [headers |-> [h \in (IF event_type = <<>> THEN {} ELSE {"X-GitHub-Event"})
                        \cup (IF signature = <<>> THEN {} ELSE {"X-Hub-Signature-256"})
                  |-> IF h = "X-GitHub-Event" THEN event_type ELSE signature],
     is_json |-> is_json,
     data |-> data,
     readable |-> readable]

Signed(event_type, key, data) == Delivery(event_type, Sign(key, data), TRUE, data, TRUE)

Deliveries ==
    { Signed(<<"push">>, SenderKey, <<1>>),
      Delivery(<<"push">>, <<>>, TRUE, <<1>>, TRUE),
      Signed(<<"push">>, SenderKey, <<2>>),
      Signed(<<"pull_request">>, SenderKey, <<3>>),
      Signed(<<"pull_request">>, SenderKey, <<4>>),
      Signed(<<>>, WrongKey, <<1>>),
      Signed(<<"push">>, SenderKey, <<6>>),
      Signed(<<"push">>, WrongKey, <<6>>),
      Signed(<<"push">>, SenderKey, <<7>>),
      Signed(<<"ping">>, SenderKey, <<1>>),
      Signed(<<"push">>, SenderKey, <<5>>),
      Delivery(<<"push">>, Sign(WrongKey, <<1>>), TRUE, <<1>>, FALSE),
      Delivery(<<"push">>, Sign(SenderKey, <<1>>), FALSE, <<1>>, TRUE) }

Secrets == {<<>>, SenderKey}

\* datetime.utcnow() at the time a delivery is normalised
Clock == {30}

\* request.headers.get(name, default)
HeaderGet(req, name, default) ==
    IF name \in DOMAIN req.headers THEN JStr(req.headers[name]) ELSE default

\* request.get_json(): the possible results
get_json(req) ==
    IF ~req.is_json THEN {Raise, None}
    ELSE {json_loads(req.data)}

(***************************************************************************)
(* Event store                                                             *)
(***************************************************************************)
\* (mutant) the collection without its unique index
DuplicateKey_NoIndex(coll, doc) == FALSE

\* the unique index on request_id (create_indexes): would inserting doc violate it
DuplicateKey(coll, doc) == \E i \in 1..Len(coll) : coll[i].request_id = doc.request_id

\* (mutant) an upsert: a record with the same request_id is overwritten
insert_one_Upsert(coll, doc) ==
    IF DuplicateKey(coll, doc)
    THEN [coll |-> [i \in 1..Len(coll) |->
                      IF coll[i].request_id = doc.request_id
                      THEN [doc EXCEPT !._id = coll[i]._id] ELSE coll[i]],
          duplicate |-> TRUE]
    ELSE [coll |-> Append(coll, [doc EXCEPT !._id = Len(coll) + 1]), duplicate |-> FALSE]

\* collection.insert_one(doc) as the server executes it, atomically: the
\* collection afterwards and whether DuplicateKeyError is the answer
insert_one(coll, doc) ==
    IF DuplicateKey(coll, doc)
    THEN [coll |-> coll, duplicate |-> TRUE]
    ELSE [coll |-> Append(coll, [doc EXCEPT !._id = Len(coll) + 1]), duplicate |-> FALSE]

\* the document pymongo sends: event_data, to which insert_one adds _id
Document(ev) ==
    [_id |-> 0, request_id |-> ev.v.request_id, author |-> ev.v.author,
     action |-> ev.v.action, from_branch |-> ev.v.from_branch,
     to_branch |-> ev.v.to_branch, timestamp |-> ev.v.timestamp]

(***************************************************************************)
(* Ingestion handler: webhook()                                            *)
(***************************************************************************)
NoRequest == [headers |-> <<>>, is_json |-> FALSE, data |-> <<>>, readable |-> FALSE]

Resp(status, message) == [status |-> status, message |-> message]

\* `return jsonify(...), status`: the handler ends
Return(w, status, message) ==
    /\ response' = [response EXCEPT ![w] = Append(@, Resp(status, message))]
    /\ pc' = [pc EXCEPT ![w] = "done"]

Goto(w, label) ==
    /\ pc' = [pc EXCEPT ![w] = label]
    /\ UNCHANGED response

Ran(w, step) == steps' = [steps EXCEPT ![w] = Append(@, step)]

\* A worker takes the next delivery and webhook() starts: the event-type
\* header is read and checked. Workers are interchangeable: the delivery goes
\* to the lowest idle one.
CheckEventType(w) ==
    /\ pc[w] = "idle"
    /\ \A v \in Workers : v < w => pc[v] # "idle"
    /\ Ran(w, "event_type")
    /\ \E req \in Deliveries :
         /\ request' = [request EXCEPT ![w] = req]
         /\ LET event_type == HeaderGet(req, "X-GitHub-Event", None) IN
            IF ~Truthy(event_type)
            THEN Return(w, 400, "Missing event type")
            ELSE Goto(w, "verify")
    /\ UNCHANGED <<secret, db, events, payload, event_data, success, saveLog, vf, nz, qs>>

\* (mutant) the handler without its outer try/except: the exception escapes
VerifySignature_Unhandled(w) ==
    /\ pc[w] = "verify"
    /\ Ran(w, "verify")
    /\ LET signature == HeaderGet(request[w], "X-Hub-Signature-256", JStr(<<>>)) IN
       IF ~request[w].readable
       THEN Goto(w, "crashed")
       ELSE IF ~verify_signature(request[w].data, signature.v, secret)
       THEN Return(w, 401, "Invalid signature")
       ELSE Goto(w, "get_json")
    /\ UNCHANGED <<secret, db, events, request, payload, event_data, success,
                   saveLog, vf, nz, qs>>

VerifySignature(w) ==
    /\ pc[w] = "verify"
    /\ Ran(w, "verify")
    /\ LET signature == HeaderGet(request[w], "X-Hub-Signature-256", JStr(<<>>)) IN
       IF ~request[w].readable
       THEN Return(w, 500, "Internal server error")
       ELSE IF ~verify_signature(request[w].data, signature.v, secret)
       THEN Return(w, 401, "Invalid signature")
       ELSE Goto(w, "get_json")
    /\ UNCHANGED <<secret, db, events, request, payload, event_data, success,
                   saveLog, vf, nz, qs>>

\* (mutant) an empty payload is not rejected
ParseJson_KeepEmpty(w) ==
    /\ pc[w] = "get_json"
    /\ Ran(w, "get_json")
    /\ \E r \in get_json(request[w]) :
         IF IsRaise(r)
         THEN Return(w, 400, "Invalid JSON payload") /\ UNCHANGED payload
         ELSE Goto(w, "parse") /\ payload' = [payload EXCEPT ![w] = r]
    /\ UNCHANGED <<secret, db, events, request, event_data, success, saveLog, vf, nz, qs>>

ParseJson(w) ==
    /\ pc[w] = "get_json"
    /\ Ran(w, "get_json")
    /\ \E r \in get_json(request[w]) :
         IF IsRaise(r)
         THEN Return(w, 400, "Invalid JSON payload") /\ UNCHANGED payload
         ELSE IF ~Truthy(r)
         THEN Return(w, 400, "Empty payload") /\ payload' = [payload EXCEPT ![w] = r]
         ELSE Goto(w, "parse") /\ payload' = [payload EXCEPT ![w] = r]
    /\ UNCHANGED <<secret, db, events, request, event_data, success, saveLog, vf, nz, qs>>

\* (mutant) a null event is answered as a client error
Normalize_RejectNull(w) ==
    /\ pc[w] = "parse"
    /\ Ran(w, "parse")
    /\ \E now \in Clock :
         \E ev \in {parse_webhook_event(payload[w],
                                        request[w].headers["X-GitHub-Event"], now)} :
            /\ event_data' = [event_data EXCEPT ![w] = ev]
            /\ IF ~Truthy(ev)
               THEN Return(w, 400, "Event type not processed")
               ELSE Goto(w, "save")
    /\ UNCHANGED <<secret, db, events, request, payload, success, saveLog, vf, nz, qs>>

Normalize(w) ==
    /\ pc[w] = "parse"
    /\ Ran(w, "parse")
    /\ \E now \in Clock :
         \E ev \in {parse_webhook_event(payload[w],
                                        request[w].headers["X-GitHub-Event"], now)} :
            /\ event_data' = [event_data EXCEPT ![w] = ev]
            /\ IF ~Truthy(ev)
               THEN Return(w, 200, "Event type not processed")
               ELSE Goto(w, "save")
    /\ UNCHANGED <<secret, db, events, request, payload, success, saveLog, vf, nz, qs>>

\* what a storage call can meet: no fault; the call never reaches the server
\* (connection refused, server selection timeout); the server executes the
\* call and the answer is lost (socket timeout)
Faults == {"none", "unreached", "unanswered"}

\* save_event's return value for each way its try block can end
save_event_result(outcome) ==
    CASE outcome = "inserted" -> TRUE
      [] outcome = "duplicate" -> FALSE
      [] outcome = "error" -> FALSE

Logged(w, outcome, wrote) ==
    saveLog' = Append(saveLog, [w |-> w, request_id |-> event_data[w].v.request_id,
                                outcome |-> outcome, wrote |-> wrote])

\* (mutant) a duplicate is answered as a conflict
SaveResponse_Conflict(ok) ==
    IF ok THEN Resp(200, "Event processed successfully")
    ELSE Resp(409, "Event received (may be duplicate)")

\* the response for save_event's return value
SaveResponse(ok) ==
    IF ok THEN Resp(200, "Event processed successfully")
    ELSE Resp(200, "Event received (may be duplicate)")

\* success = save_event(event_data) has returned ok: the handler answers
Respond(w, ok) ==
    /\ success' = [success EXCEPT ![w] = ok]
    /\ Return(w, SaveResponse(ok).status, SaveResponse(ok).message)

\* save_event, db = get_db(): initialises the module's db if it is not yet;
\* RuntimeError when it cannot
SaveGetDb(w) ==
    /\ pc[w] = "save"
    /\ Ran(w, "save")
    /\ \/ /\ db = "ready"
          /\ Goto(w, "insert")
          /\ UNCHANGED <<db, success, saveLog>>
       \/ /\ db = "none"
          /\ db' = "ready"
          /\ Goto(w, "insert")
          /\ UNCHANGED <<success, saveLog>>
       \/ /\ db = "none"
          /\ Logged(w, "error", FALSE)
          /\ Respond(w, save_event_result("error"))
          /\ UNCHANGED db
    /\ UNCHANGED <<secret, events, request, payload, event_data, vf, nz, qs>>

\* save_event, collection.insert_one(event_data), its return, and the response
SaveInsert(w) ==
    /\ pc[w] = "insert"
    /\ \E fault \in Faults :
         LET r == insert_one(events, Document(event_data[w]))
             outcome == IF fault # "none" THEN "error"
                        ELSE IF r.duplicate THEN "duplicate" ELSE "inserted"
         IN /\ events' = IF fault = "unreached" THEN events ELSE r.coll
            /\ Logged(w, outcome, fault # "unreached" /\ ~r.duplicate)
            /\ Respond(w, save_event_result(outcome))
    /\ UNCHANGED <<secret, db, request, payload, event_data, steps, vf, nz, qs>>

(***************************************************************************)
(* Queries: EventService.get_latest_events and GET /api/events             *)
(***************************************************************************)
DefaultLimit == 50

\* the text isoformat() writes for an instant: the inverse of IsoInstant
IsoText(i) ==
    CASE i = 10 -> "2024-01-01T00:00:00"
      [] i = 15 -> "2024-01-15T00:00:00"
      [] i = 20 -> "2024-02-01T00:00:00"
      [] i = 30 -> "2024-03-01T00:00:00"

\* datetime.isoformat(): the UTC offset is written for an aware datetime only
isoformat(dt) == IF dt.aware THEN <<IsoText(dt.v), "+00:00">> ELSE <<IsoText(dt.v)>>

\* str(ObjectId)
ObjectIdStr(id) == Decimal(id)

\* a document as pymongo hands it back: BSON dates come back naive (UTC)
BsonDecode(doc) == [doc EXCEPT !.timestamp = DateTime(doc.timestamp.v, FALSE)]

\* (mutant) the filter keeps the events at the `since` instant too
Matches_Inclusive(doc, since) == ~Truthy(since) \/ doc.timestamp.v >= since.v

\* query = {} ; if since: query['timestamp'] = {'$gt': since}
Matches(doc, since) == ~Truthy(since) \/ doc.timestamp.v > since.v

\* collection.find(query)
find(coll, since) == SelectSeq(coll, LAMBDA doc : Matches(doc, since))

\* .sort('timestamp', -1): newest first; documents with equal timestamps come
\* in the order the server holds them, which no read changes
RECURSIVE sort_desc(_)
sort_desc(docs) ==
    IF docs = <<>> THEN <<>>
    ELSE LET rest == sort_desc(SubSeq(docs, 1, Len(docs) - 1))
             doc == docs[Len(docs)]
             k == Cardinality({i \in 1..Len(rest) : rest[i].timestamp.v >= doc.timestamp.v})
         IN SubSeq(rest, 1, k) \o <<doc>> \o SubSeq(rest, k + 1, Len(rest))

\* .limit(n) as the server applies it: 0 is no limit, a negative limit is
\* applied as its absolute value
cursor_limit(docs, n) ==
    IF n = 0 THEN docs
    ELSE LET m == IF n < 0 THEN -n ELSE n IN
         SubSeq(docs, 1, IF Len(docs) < m THEN Len(docs) ELSE m)

\* the loop over the cursor: _id to str, timestamp to its ISO text
Serialized(doc) ==
    JObj([BsonDecode(doc) EXCEPT !._id = JStr(ObjectIdStr(doc._id)),
                                 !.timestamp = JStr(isoformat(BsonDecode(doc).timestamp))])

\* what the storage does to a query: it answers; it cannot be reached (find
\* raises); the module has no db and cannot initialise one (get_db raises)
QueryOutcomes == {"ok", "unreached", "no_db"}

\* get_latest_events(limit, since): the list it returns
get_latest_events(coll, limit, since, outcome) ==
    IF outcome # "ok" THEN <<>>
    ELSE LET docs == cursor_limit(sort_desc(find(coll, since)), limit) IN
         [i \in 1..Len(docs) |-> Serialized(docs[i])]

\* get_events_since_timestamp(timestamp)
get_events_since_timestamp(coll, timestamp, outcome) ==
    get_latest_events(coll, DefaultLimit, timestamp, outcome)

Digits == <<"0", "1", "2", "3", "4", "5", "6", "7", "8", "9">>

IsDigits(s) == Len(s) > 0 /\ \A i \in 1..Len(s) : \E d \in 1..10 : Digits[d] = s[i]

RECURSIVE DigitsValue(_)
DigitsValue(s) ==
    IF s = <<>> THEN 0
    ELSE 10 * DigitsValue(SubSeq(s, 1, Len(s) - 1))
         + (CHOOSE d \in 0..9 : Digits[d + 1] = s[Len(s)])

\* int(x) for an int or a str of decimal digits with an optional sign
PyInt(x) ==
    IF x.t = "num" THEN x
    ELSE IF IsDigits(x.v) THEN JNum(DigitsValue(x.v))
    ELSE IF Len(x.v) > 1 /\ x.v[1] = "-" /\ IsDigits(Tail(x.v)) THEN JNum(-DigitsValue(Tail(x.v)))
    ELSE Raise

\* (mutant) a since that does not parse filters as the current time would
ParseSince_Now(args) ==
    LET since_param == Get(args, "since", None) IN
    IF ~Truthy(since_param) THEN None
    ELSE LET parsed == fromisoformat(Replace(since_param.v, "Z", <<"+00:00">>)) IN
         IF IsRaise(parsed) THEN DateTime(30, FALSE) ELSE parsed

\* get_events: since = None, replaced by the parsed `since` argument when it
\* is given, non-empty and parses (ValueError is logged and dropped)
ParseSince(args) ==
    LET since_param == Get(args, "since", None) IN
    IF ~Truthy(since_param) THEN None
    ELSE LET parsed == fromisoformat(Replace(since_param.v, "Z", <<"+00:00">>)) IN
         IF IsRaise(parsed) THEN None ELSE parsed

\* get_events: limit = int(request.args.get('limit', 50))
ParseLimit(args) == PyInt(Get(args, "limit", JNum(DefaultLimit)))

\* (mutant) a storage failure reaches the handler and is answered 500
get_events_Propagate(args, coll, outcome) ==
    IF IsRaise(ParseLimit(args)) \/ outcome # "ok"
    THEN [status |-> 500,
          body |-> JObj([success |-> JBool(FALSE),
                         error |-> JStr(<<"Failed to fetch events">>)])]
    ELSE LET found == get_latest_events(coll, ParseLimit(args).v, ParseSince(args),
                                        outcome)
         IN [status |-> 200,
             body |-> JObj([success |-> JBool(TRUE), events |-> JList(found),
                            count |-> JNum(Len(found))])]

\* (mutant) the handler keeps a cursor: a poll that follows a poll gets nothing
get_events_Cursor(args, coll, outcome) ==
    IF IsRaise(ParseLimit(args))
    THEN [status |-> 500,
          body |-> JObj([success |-> JBool(FALSE),
                         error |-> JStr(<<"Failed to fetch events">>)])]
    ELSE LET found == IF qs.pc = "get_events" THEN <<>>
                      ELSE get_latest_events(coll, ParseLimit(args).v, ParseSince(args),
                                             outcome)
         IN [status |-> 200,
             body |-> JObj([success |-> JBool(TRUE), events |-> JList(found),
                            count |-> JNum(Len(found))])]

\* get_events(): the response to GET /api/events?since=..&limit=..
get_events(args, coll, outcome) ==
    IF IsRaise(ParseLimit(args))
    THEN [status |-> 500,
          body |-> JObj([success |-> JBool(FALSE),
                         error |-> JStr(<<"Failed to fetch events">>)])]
    ELSE LET found == get_latest_events(coll, ParseLimit(args).v, ParseSince(args),
                                        outcome)
         IN [status |-> 200,
             body |-> JObj([success |-> JBool(TRUE), events |-> JList(found),
                            count |-> JNum(Len(found))])]

(***************************************************************************)
(* verify_signature called on its own                                      *)
(***************************************************************************)
VerifyBodies == {<<>>, <<1>>, <<2>>, <<6>>}

VerifySecrets == {<<>>, <<"k">>, <<"x">>, <<"k", "s">>}

VerifyHeaders ==
    {<<>>, <<"sha256=">>, <<"sha256=", "0">>, <<"sha1=", "0", "0">>}
    \cup {ExpectedSignature(b, k) : b \in VerifyBodies, k \in VerifySecrets \ {<<>>}}
    \cup {HexDigest(HmacDigest(Encode(k), b)) : b \in VerifyBodies, k \in {<<"k">>}}

VerifyCall ==
    /\ vf.pc = "call"
    /\ vf' = [vf EXCEPT !.pc = "returned",
                        !.result = verify_signature(vf.payload_body,
                                                    vf.signature_header, vf.secret)]
    /\ UNCHANGED <<pipeVars, nz, qs>>

(***************************************************************************)
(* parse_webhook_event called on its own                                   *)
(***************************************************************************)
\* a dict built from (key, value) pairs; an absent key has no pair
Obj(pairs) ==
    JObj([k \in {p[1] : p \in pairs} |-> (CHOOSE p \in pairs : p[1] = k)[2]])

\* the shapes a field of a payload can take: absent, or present with a value
Field(key, values, canBeAbsent) ==
    {{<<key, v>>} : v \in values} \cup (IF canBeAbsent THEN {{}} ELSE {})

Named(name) == JObj([name |-> JStr(name)])

UnparseableTime == JStr(<<"yesterday">>)

PushCommits ==
    { Obj(id \cup ts \cup author) :
        id \in Field("id", {JStr(CommitId), JStr(<<"a", "b", "c">>), None}, TRUE),
        ts \in Field("timestamp", {JStr(<<"2024-01-01T00:00:00", "Z">>),
                                   JStr(<<"2024-01-15T00:00:00">>),
                                   UnparseableTime, None}, TRUE),
        author \in Field("author", {Named(<<"carol">>)}, TRUE) }

OtherCommit == Commit(<<"9", "9", "9", "9", "9", "9", "9", "9">>,
                      <<"2024-02-01T00:00:00", "Z">>, <<"dave">>)

PushCommitLists ==
    Field("commits", {JList(<<>>), None, JList(<<None>>)}, TRUE)
    \cup {{<<"commits", JList(<<c>>)>>} : c \in PushCommits}
    \cup {{<<"commits", JList(<<c, OtherCommit>>)>>} : c \in PushCommits}

PushPayloads ==
    { Obj(ref \cup pusher \cup commits) :
        ref \in Field("ref", {JStr(<<RefsHeads, "main">>), JStr(<<"main">>),
                              JStr(<<RefsHeads, "x", RefsHeads, "y">>),
                              JStr(<<"refs/tags/", "v1">>), None}, TRUE),
        pusher \in Field("pusher", {Named(<<"alice">>), Named(<<>>), None}, TRUE),
        commits \in PushCommitLists }

PullRequests ==
    { Obj(number \cup head \cup base \cup user \cup created_at \cup merged \cup merged_at) :
        number \in Field("number", {JNum(42)}, TRUE),
        head \in Field("head", {JObj([ref |-> JStr(<<"feature">>)])}, TRUE),
        base \in Field("base", {JObj([ref |-> JStr(<<"main">>)]),
                                JObj([ref |-> None]), None}, TRUE),
        user \in Field("user", {JObj([login |-> JStr(<<"bob">>)])}, TRUE),
        created_at \in Field("created_at", {JStr(<<"2024-01-15T00:00:00", "Z">>),
                                            UnparseableTime}, TRUE),
        merged \in Field("merged", {JBool(TRUE), JBool(FALSE)}, TRUE),
        merged_at \in Field("merged_at", {JStr(<<"2024-02-01T00:00:00", "Z">>),
                                          UnparseableTime, None}, TRUE) }

PullRequestPayloads ==
    { Obj(action \cup pull_request) :
        action \in Field("action", {JStr(<<"opened">>), JStr(<<"closed">>),
                                    JStr(<<"synchronize">>), JStr(<<"labeled">>),
                                    None}, TRUE),
        pull_request \in Field("pull_request", PullRequests, FALSE) }
      \cup {Obj(action) : action \in Field("action", {JStr(<<"opened">>)}, TRUE)}

\* the calls made: (event_type, payload)
NormalizeCalls ==
    ({<<"push">>} \X PushPayloads)
    \cup ({<<"pull_request">>} \X PullRequestPayloads)
    \cup ({<<"ping">>, <<"issues">>} \X {PushA, PrMerged})

NormalizeCall ==
    /\ nz.pc = "call"
    /\ nz' = [nz EXCEPT !.pc = "returned",
                        !.result = parse_webhook_event(nz.payload, nz.event_type, nz.now)]
    /\ UNCHANGED <<pipeVars, vf, qs>>

(***************************************************************************)
(* EventService and GET /api/events called on their own                    *)
(***************************************************************************)
Event(request_id, author, action, from_branch, to_branch, timestamp) ==
    JObj([request_id |-> JStr(request_id), author |-> JStr(author),
          action |-> JStr(action), from_branch |-> from_branch,
          to_branch |-> JStr(to_branch), timestamp |-> timestamp])

\* normalised events handed to save_event: two share a request_id and differ
\* in every other field, two others share an instant, one carries its
\* timestamp as a string
ServiceEvents ==
    { Event(<<"c", "1">>, <<"alice">>, <<"PUSH">>, None, <<"main">>, DateTime(10, TRUE)),
      Event(<<"c", "1">>, <<"bob">>, <<"PUSH">>, None, <<"dev">>, DateTime(15, TRUE)),
      Event(<<"c", "2">>, <<"alice">>, <<"PUSH">>, None, <<"main">>, DateTime(15, TRUE)),
      Event(<<"4", "2">>, <<"bob">>, <<"PULL_REQUEST">>, JStr(<<"feature">>), <<"main">>,
            DateTime(15, FALSE)),
      Event(<<"4", "3">>, <<"bob">>, <<"MERGE">>, JStr(<<"feature">>), <<"main">>,
            JStr(<<"2024-02-01T00:00:00", "Z">>)) }

\* save_event: a timestamp held as a str is parsed before the insert
EnsureDatetime(ev) ==
    IF ev.v.timestamp.t # "str" THEN ev
    ELSE LET parsed == fromisoformat(Replace(ev.v.timestamp.v, "Z", <<"+00:00">>)) IN
         IF IsRaise(parsed) THEN Raise ELSE JObj([ev.v EXCEPT !.timestamp = parsed])

\* the query strings of GET /api/events
QueryArgs ==
    { Obj(since \cup limit) :
        since \in Field("since", {JStr(<<>>), JStr(<<"2024-01-15T00:00:00", "Z">>),
                                  JStr(<<"yesterday">>)}, TRUE),
        limit \in Field("limit", {JStr(<<"0">>), JStr(<<"1">>), JStr(<<"2">>),
                                  JStr(<<"-", "1">>), JStr(<<"x">>)}, TRUE) }

SinceTimestamps == {DateTime(15, FALSE), DateTime(10, TRUE)}

\* get_db(): the module's db after a call that met `outcome`
DbAfter(outcome) == IF outcome = "no_db" THEN db ELSE "ready"

NoPrev == [storage |-> "none"]

\* EventService.save_event(ev), start to return
SaveEvent ==
    /\ \E ev \in ServiceEvents, outcome \in Faults \cup {"no_db"} :
         /\ outcome = "no_db" => db = "none"
         /\ LET doc == EnsureDatetime(ev)
                wrote == outcome \in {"none", "unanswered"} /\ ~IsRaise(doc)
                r == insert_one(events, Document(doc))
                ending == IF outcome # "none" \/ IsRaise(doc) THEN "error"
                          ELSE IF r.duplicate THEN "duplicate" ELSE "inserted"
            IN /\ events' = IF wrote THEN r.coll ELSE events
               /\ qs' = [pc |-> "save_event", event |-> ev, ending |-> ending,
                         result |-> save_event_result(ending)]
         /\ db' = DbAfter(outcome)
    /\ UNCHANGED <<secret, pc, request, payload, event_data, success, response, steps,
                   saveLog, vf, nz>>

\* GET /api/events, start to response; prev is the answer of the call before
\* when that was the same query
GetEvents ==
    /\ \E args \in QueryArgs, outcome \in QueryOutcomes :
         /\ outcome = "no_db" => db = "none"
         /\ LET called == ~IsRaise(ParseLimit(args)) IN
            /\ db' = IF called THEN DbAfter(outcome) ELSE db
            /\ qs' = [pc |-> "get_events", args |-> args,
                      since |-> ParseSince(args), limit |-> ParseLimit(args),
                      storage |-> IF called THEN outcome ELSE "unused",
                      response |-> get_events(args, events, outcome),
                      prev |-> IF qs.pc = "get_events" /\ qs.args = args
                               THEN [storage |-> qs.storage, response |-> qs.response]
                               ELSE NoPrev]
    /\ UNCHANGED <<secret, events, pc, request, payload, event_data, success, response,
                   steps, saveLog, vf, nz>>

\* EventService.get_events_since_timestamp(timestamp), start to return
EventsSince ==
    /\ \E timestamp \in SinceTimestamps, outcome \in QueryOutcomes :
         /\ outcome = "no_db" => db = "none"
         /\ db' = DbAfter(outcome)
         /\ qs' = [pc |-> "events_since", since |-> timestamp,
                   limit |-> JNum(DefaultLimit), storage |-> outcome,
                   result |-> get_events_since_timestamp(events, timestamp, outcome)]
    /\ UNCHANGED <<secret, events, pc, request, payload, event_data, success, response,
                   steps, saveLog, vf, nz>>

(***************************************************************************)
(* Specifications                                                          *)
(***************************************************************************)
VfIdle == [pc |-> "idle", payload_body |-> <<>>, signature_header |-> <<>>,
           secret |-> <<>>, result |-> FALSE]

NzIdle == [pc |-> "idle", event_type |-> <<>>, payload |-> None, now |-> 0,
           result |-> None]

QsIdle == [pc |-> "idle"]

InitWorkers ==
    /\ events = <<>>
    /\ pc = [w \in Workers |-> "idle"]
    /\ request = [w \in Workers |-> NoRequest]
    /\ payload = [w \in Workers |-> None]
    /\ event_data = [w \in Workers |-> None]
    /\ success = [w \in Workers |-> FALSE]
    /\ response = [w \in Workers |-> <<>>]
    /\ steps = [w \in Workers |-> <<>>]
    /\ saveLog = <<>>

\* create_app(): the configuration is read and init_mongodb has run once
Init ==
    /\ secret \in Secrets
    /\ db \in {"none", "ready"}
    /\ InitWorkers
    /\ vf = VfIdle
    /\ nz = NzIdle
    /\ qs = QsIdle

Next ==
    \E w \in Workers :
        \/ CheckEventType(w)
        \/ VerifySignature(w)
        \/ ParseJson(w)
        \/ Normalize(w)
        \/ SaveGetDb(w)
        \/ SaveInsert(w)

Spec == Init /\ [][Next]_vars

InitVerify ==
    /\ secret = <<>>
    /\ db = "none"
    /\ InitWorkers
    /\ vf \in [pc : {"call"}, payload_body : VerifyBodies,
               signature_header : VerifyHeaders, secret : VerifySecrets,
               result : {FALSE}]
    /\ nz = NzIdle
    /\ qs = QsIdle

NextVerify == VerifyCall

SpecVerify == InitVerify /\ [][NextVerify]_vars

\* the pipeline is idle; parse_webhook_event is handed one call
InitNormalize ==
    /\ secret = <<>>
    /\ db = "none"
    /\ InitWorkers
    /\ vf = VfIdle
    /\ qs = QsIdle
    /\ \E c \in NormalizeCalls, now \in Clock :
         nz = [pc |-> "call", event_type |-> c[1], payload |-> c[2], now |-> now,
               result |-> None]

NextNormalize == NormalizeCall

SpecNormalize == InitNormalize /\ [][NextNormalize]_vars

\* the pipeline is idle; the service and the query endpoint are called in turn
InitService ==
    /\ secret = <<>>
    /\ db \in {"none", "ready"}
    /\ InitWorkers
    /\ vf = VfIdle
    /\ nz = NzIdle
    /\ qs = QsIdle

NextService == SaveEvent \/ GetEvents \/ EventsSince

SpecService == InitService /\ [][NextService]_vars

(***************************************************************************)
(* Vocabulary of the properties                                            *)
(***************************************************************************)
Done(w) == pc[w] = "done"

Status(w) == response[w][1].status

Message(w) == response[w][1].message

\* positions of the stored records with this request_id
RecordsWith(rid) == {i \in 1..Len(events) : events[i].request_id = rid}

\* positions in saveLog of the save_event calls for this request_id
SaveCalls(rid) == {i \in 1..Len(saveLog) : saveLog[i].request_id = rid}

SavedBy(w) == {i \in 1..Len(saveLog) : saveLog[i].w = w}

\* the save_event calls for rid up to the i-th met no storage failure
NoStorageFailureUpTo(rid, i) ==
    \A k \in SaveCalls(rid) : k <= i => saveLog[k].outcome # "error"

HasEventType(req) == "X-GitHub-Event" \in DOMAIN req.headers

\* the signature header is missing or is not sha256=<hex HMAC of the body>
SignatureBad(req) ==
    \/ "X-Hub-Signature-256" \notin DOMAIN req.headers
    \/ req.headers["X-Hub-Signature-256"]
         # <<"sha256=">> \o HexDigest(HmacDigest(Encode(secret), req.data))

SameFields(doc, ev) ==
    /\ doc.request_id = ev.v.request_id
    /\ doc.author = ev.v.author
    /\ doc.action = ev.v.action
    /\ doc.from_branch = ev.v.from_branch
    /\ doc.to_branch = ev.v.to_branch
    /\ doc.timestamp = ev.v.timestamp

(***************************************************************************)
(* C1. No two stored events have the same request_id, in every reachable   *)
(* state and whatever the interleaving of the workers (two identical       *)
(* deliveries racing included); the handler holds no lock, the unique      *)
(* index checked inside insert_one is what rules the second record out.    *)
(***************************************************************************)
C1_UniqueRequestId ==
    \A i, j \in 1..Len(events) :
        i # j => events[i].request_id # events[j].request_id

\* two workers handled the same delivery, both reached insert_one, one record
C1_Witness ==
    \E a, b \in Workers :
        /\ a # b
        /\ request[a] = request[b]
        /\ SavedBy(a) # {} /\ SavedBy(b) # {}
        /\ \A i \in SavedBy(a) \cup SavedBy(b) : saveLog[i].outcome # "error"
        /\ Len(events) = 1

(***************************************************************************)
(* C2. Idempotence of save. Among the save calls for one request_id, as    *)
(* long as none met a storage failure: the first returns true, every later *)
(* one returns false, exactly one record with that request_id is stored,   *)
(* and it carries the fields the first call wrote.                         *)
(***************************************************************************)
C2_SaveIdempotent ==
    \A i \in 1..Len(saveLog) :
        LET rid == saveLog[i].request_id
            earlier == {k \in SaveCalls(rid) : k < i}
            first == CHOOSE k \in SaveCalls(rid) : \A m \in SaveCalls(rid) : k <= m
        IN NoStorageFailureUpTo(rid, i) =>
             /\ success[saveLog[i].w] = (earlier = {})
             /\ Cardinality(RecordsWith(rid)) = 1
             /\ \A r \in RecordsWith(rid) :
                    SameFields(events[r], event_data[saveLog[first].w])

\* a second save with the same request_id and other fields has returned false
C2_Witness ==
    \E i, j \in 1..Len(saveLog) :
        /\ i < j
        /\ saveLog[i].request_id = saveLog[j].request_id
        /\ NoStorageFailureUpTo(saveLog[j].request_id, j)
        /\ event_data[saveLog[i].w] # event_data[saveLog[j].w]
        /\ success[saveLog[i].w] /\ ~success[saveLog[j].w]

(***************************************************************************)
(* C3 as stated. With a secret configured, a delivery whose signature      *)
(* header is missing or differs from the expected signature always ends    *)
(* unauthorized (401) and never reaches the store.                         *)
(***************************************************************************)
C3_Original ==
    \A w \in Workers :
        (secret # <<>> /\ Done(w) /\ SignatureBad(request[w])) =>
            /\ Status(w) = 401
            /\ SavedBy(w) = {}

(***************************************************************************)
(* C3 amended. With a secret configured, a delivery whose signature header *)
(* is missing or differs from the expected signature never gets past the   *)
(* signature step and never reaches the store; it ends unauthorized (401)  *)
(* exactly when it carries the event-type header and its body can be read  *)
(* (without the header it is a 400, with an unreadable body a 500).        *)
(***************************************************************************)
C3_UnauthenticatedNeverStored ==
    \A w \in Workers :
        (secret # <<>> /\ pc[w] # "idle" /\ SignatureBad(request[w])) =>
            /\ pc[w] \in {"verify", "done"}
            /\ SavedBy(w) = {}
            /\ \A i \in 1..Len(steps[w]) : steps[w][i] \in {"event_type", "verify"}
            /\ Done(w) =>
                 /\ Status(w) = (IF ~HasEventType(request[w]) THEN 400
                                 ELSE IF ~request[w].readable THEN 500 ELSE 401)

\* a delivery with a wrong or missing signature was answered 401
C3_Witness ==
    \E w \in Workers :
        /\ secret # <<>> /\ Done(w) /\ SignatureBad(request[w])
        /\ Status(w) = 401
        /\ events = <<>>

(***************************************************************************)
(* C4. A storage failure during save that is not a uniqueness violation    *)
(* is reported distinctly from a duplicate: save does not return the       *)
(* duplicate signal for it and the delivery ends in the server-error       *)
(* outcome (500), not in a success outcome.                                *)
(***************************************************************************)
C4_StorageFailureIsServerError ==
    \A i \in 1..Len(saveLog) :
        saveLog[i].outcome = "error" =>
            /\ Status(saveLog[i].w) = 500
            /\ Message(saveLog[i].w) # SaveResponse(save_event_result("duplicate")).message

(***************************************************************************)
(* C5. Whenever deliveries yielding the same request_id are ingested       *)
(* (the same push twice, sequentially or concurrently) and no save met a   *)
(* storage failure: every one of them is answered with success (200), the  *)
(* first is reported as stored, each later one as a duplicate, and exactly *)
(* one record with that request_id is in the store.                        *)
(***************************************************************************)
C5_RedeliveryIsSuccess ==
    \A i \in 1..Len(saveLog) :
        LET rid == saveLog[i].request_id
            w == saveLog[i].w
        IN NoStorageFailureUpTo(rid, Len(saveLog)) =>
             /\ Done(w) /\ Status(w) = 200
             /\ Message(w) = (IF \E k \in SaveCalls(rid) : k < i
                              THEN "Event received (may be duplicate)"
                              ELSE "Event processed successfully")
             /\ Cardinality(RecordsWith(rid)) = 1

\* the same push was ingested by two workers: one stored, one duplicate
C5_Witness ==
    \E a, b \in Workers :
        /\ a # b /\ Done(a) /\ Done(b)
        /\ request[a] = request[b]
        /\ HasEventType(request[a])
        /\ request[a].headers["X-GitHub-Event"] = <<"push">>
        /\ Status(a) = 200 /\ Message(a) = "Event processed successfully"
        /\ Status(b) = 200 /\ Message(b) = "Event received (may be duplicate)"
        /\ Len(events) = 1

(***************************************************************************)
(* C6. The steps run in the order event-type header, signature             *)
(* verification, JSON body parse, normalisation, save; the delivery's      *)
(* outcome is that of the first failing step and no step runs after it:    *)
(* no event-type header -> 400 whatever the signature; invalid signature   *)
(* -> 401 whatever the body; unparseable or empty body -> 400 before       *)
(* normalisation.                                                          *)
(***************************************************************************)
StepOrder == <<"event_type", "verify", "get_json", "parse", "save">>

BodyBad(req) ==
    \/ ~req.is_json
    \/ IsRaise(json_loads(req.data))
    \/ ~Truthy(json_loads(req.data))

\* <<number of steps that run, status>> when a step before save rejects
FirstFailure(req) ==
    IF ~HasEventType(req) THEN <<1, 400>>
    ELSE IF ~req.readable THEN <<2, 500>>
    ELSE IF secret # <<>> /\ SignatureBad(req) THEN <<2, 401>>
    ELSE IF BodyBad(req) THEN <<3, 400>>
    ELSE <<0, 0>>

C6_StepOrder ==
    \A w \in Workers :
        /\ Len(steps[w]) <= Len(StepOrder)
        /\ steps[w] = SubSeq(StepOrder, 1, Len(steps[w]))
        /\ Done(w) =>
             LET f == FirstFailure(request[w]) IN
             IF f[1] # 0
             THEN Len(steps[w]) = f[1] /\ Status(w) = f[2]
             ELSE /\ Len(steps[w]) >= 4
                  /\ Status(w) = 200
                  /\ (Len(steps[w]) = 4) = ~Truthy(event_data[w])

\* invalid signature and unparseable body: 401, the body was never parsed
C6_Witness ==
    \E w \in Workers :
        /\ Done(w) /\ secret # <<>>
        /\ SignatureBad(request[w]) /\ BodyBad(request[w])
        /\ Status(w) = 401
        /\ steps[w] = <<"event_type", "verify">>

(***************************************************************************)
(* C7. When the normaliser returns null for an authenticated, parseable    *)
(* delivery, the delivery ends in a success outcome (200) and the store is *)
(* left as it was: save is never called for it.                            *)
(***************************************************************************)
Normalized(w) == \E i \in 1..Len(steps[w]) : steps[w][i] = "parse"

C7_NullEventSkipped ==
    \A w \in Workers :
        (Normalized(w) /\ event_data[w] = None) =>
            /\ Done(w)
            /\ Status(w) = 200
            /\ Message(w) = "Event type not processed"
            /\ SavedBy(w) = {}
            /\ steps[w] = SubSeq(StepOrder, 1, 4)

\* a null event was skipped while another delivery's record is in the store
C7_Witness ==
    \E w \in Workers :
        /\ Normalized(w) /\ event_data[w] = None
        /\ Status(w) = 200
        /\ Len(events) = 1

(***************************************************************************)
(* C8. Every delivery ends in exactly one of the outcomes client error     *)
(* (400), unauthorized (401), success (200), server error (500): a worker  *)
(* is always at a position of the handler, each position is passed at most *)
(* once (the number of steps run is fixed by the position), it answers     *)
(* exactly once, and an exception that a step does not handle itself       *)
(* (reading the request body fails) becomes the 500 answer.                *)
(***************************************************************************)
Outcomes == {400, 401, 200, 500}

\* the number of steps that have run when the handler is at a position
StepsBefore(label) ==
    CASE label = "idle" -> {0}
      [] label = "verify" -> {1}
      [] label = "get_json" -> {2}
      [] label = "parse" -> {3}
      [] label = "save" -> {4}
      [] label = "insert" -> {5}
      [] label = "done" -> 1..5
      [] OTHER -> {}

C8_OneOutcome ==
    \A w \in Workers :
        /\ Len(steps[w]) \in StepsBefore(pc[w])
        /\ Len(response[w]) = (IF Done(w) THEN 1 ELSE 0)
        /\ Done(w) =>
             /\ Status(w) \in Outcomes
             /\ (HasEventType(request[w]) /\ ~request[w].readable) => Status(w) = 500

\* the body could not be read: the exception was turned into a 500
C8_Witness ==
    \E w \in Workers :
        /\ Done(w)
        /\ HasEventType(request[w]) /\ ~request[w].readable
        /\ Status(w) = 500

(***************************************************************************)
(* C9 as stated. For all payloads, secrets and signature headers, verify   *)
(* returns true if and only if the header equals sha256= followed by the   *)
(* hex HMAC of the payload under the secret.                               *)
(***************************************************************************)
HeaderMatches ==
    vf.signature_header
        = <<"sha256=">> \o HexDigest(HmacDigest(Encode(vf.secret), vf.payload_body))

C9_Original == vf.pc = "returned" => (vf.result <=> HeaderMatches)

(***************************************************************************)
(* C9 amended. For all payloads, all non-empty secrets and all signature   *)
(* headers, verify returns true if and only if the header equals sha256=   *)
(* followed by the hex HMAC of the payload under the secret.               *)
(***************************************************************************)
C9_VerifyIffHmac ==
    (vf.pc = "returned" /\ vf.secret # <<>>) => (vf.result <=> HeaderMatches)

\* a matching header was accepted under a non-empty secret
C9_Witness == vf.pc = "returned" /\ vf.secret # <<>> /\ vf.result /\ HeaderMatches

(***************************************************************************)
(* C10. With an empty secret configured, verify returns true for every     *)
(* payload and every signature header (absent, malformed, wrong), so no    *)
(* delivery is turned away at the signature gate.                          *)
(***************************************************************************)
C10_EmptySecretAcceptsAll ==
    /\ \A b \in VerifyBodies, h \in VerifyHeaders : verify_signature(b, h, <<>>)
    /\ secret = <<>> =>
         \A w \in Workers :
             /\ Done(w) => Status(w) # 401
             /\ (Len(steps[w]) >= 2 /\ request[w].readable) =>
                    (pc[w] # "done" \/ Len(steps[w]) > 2)

\* no secret configured: a delivery without signature header was stored
C10_Witness ==
    \E w \in Workers :
        /\ secret = <<>> /\ Done(w)
        /\ "X-Hub-Signature-256" \notin DOMAIN request[w].headers
        /\ Status(w) = 200 /\ Message(w) = "Event processed successfully"

(***************************************************************************)
(* Claims about the normaliser                                             *)
(***************************************************************************)
NzReturned(event_type) == nz.pc = "returned" /\ nz.event_type = event_type

\* the payload field `key` is absent or holds a value of one of the types
Opt(x, key, types) == key \notin DOMAIN x.v \/ x.v[key].t \in types

HasCommits(pl) ==
    /\ "commits" \in DOMAIN pl.v
    /\ pl.v["commits"].t = "list"
    /\ Len(pl.v["commits"].v) >= 1

FirstCommit(pl) == pl.v["commits"].v[1]

\* the instant an ISO-8601 string denotes (Z read as +00:00), Raise if none
InstantOf(x) ==
    IF x.t = "str" THEN fromisoformat(Replace(x.v, "Z", <<"+00:00">>)) ELSE Raise

\* a timestamp field the normaliser can use: absent, empty, null or ISO-8601
UsableTime(x, key) ==
    key \in DOMAIN x.v => (~Truthy(x.v[key]) \/ ~IsRaise(InstantOf(x.v[key])))

\* the first seven characters of the first commit's id ("" when it has none)
ShortId(pl) ==
    LET c == FirstCommit(pl) IN
    IF c.t = "obj" /\ "id" \in DOMAIN c.v /\ c.v["id"].t = "str"
    THEN JStr(SubSeq(c.v["id"].v, 1, IF Len(c.v["id"].v) > 7 THEN 7 ELSE Len(c.v["id"].v)))
    ELSE JStr(<<>>)

IsPushEvent(pl, ev) ==
    /\ ev.t = "obj"
    /\ ev.v.action = JStr(<<"PUSH">>)
    /\ ev.v.from_branch = None
    /\ ev.v.request_id = ShortId(pl)

WellFormedPush(pl) ==
    /\ Opt(pl, "ref", {"str"})
    /\ Opt(pl, "pusher", {"obj"})
    /\ FirstCommit(pl).t = "obj"
    /\ Opt(FirstCommit(pl), "id", {"str"})
    /\ Opt(FirstCommit(pl), "author", {"obj"})
    /\ UsableTime(FirstCommit(pl), "timestamp")

\* C11 as stated: every push payload with at least one commit is normalised to
\* an event (not null) with action PUSH, from_branch null and request_id the
\* first seven characters of the first commit's id.
C11_Original ==
    (NzReturned(<<"push">>) /\ HasCommits(nz.payload)) => IsPushEvent(nz.payload, nz.result)

\* C11 (amended): a push payload with at least one commit whose ref is a string
\* when present, whose pusher is an object when present, and whose first commit
\* is an object with a string id (when present), an object author (when
\* present) and an absent, empty, null or ISO-8601 timestamp, is normalised to
\* an event with action PUSH, from_branch null and request_id the first seven
\* characters of that commit's id (the whole id when shorter).
C11_WellFormedPushIsEvent ==
    (NzReturned(<<"push">>) /\ HasCommits(nz.payload) /\ WellFormedPush(nz.payload))
        => IsPushEvent(nz.payload, nz.result)

C11_Witness ==
    /\ NzReturned(<<"push">>)
    /\ HasCommits(nz.payload)
    /\ WellFormedPush(nz.payload)
    /\ Len(nz.payload.v["commits"].v) = 2
    /\ "id" \in DOMAIN FirstCommit(nz.payload).v
    /\ Len(FirstCommit(nz.payload).v["id"].v) > 7
    /\ nz.result.t = "obj"
    /\ Len(nz.result.v.request_id.v) = 7

PullRequestOf(pl) == pl.v["pull_request"]

HasPullRequest(pl) == "pull_request" \in DOMAIN pl.v /\ PullRequestOf(pl).t = "obj"

\* merged = true and a non-empty merged_at
IsMerged(pr) ==
    /\ "merged" \in DOMAIN pr.v /\ pr.v["merged"] = JBool(TRUE)
    /\ "merged_at" \in DOMAIN pr.v /\ Truthy(pr.v["merged_at"])

\* the value at pr[outer][inner] when both are present
HoldsAt(pr, outer, inner, value) ==
    (outer \in DOMAIN pr.v /\ pr.v[outer].t = "obj" /\ inner \in DOMAIN pr.v[outer].v)
        => value = pr.v[outer].v[inner]

\* the event's timestamp is the instant written in pr[key]
TimestampIs(ev, pr, key) ==
    key \in DOMAIN pr.v => (ev.v.timestamp.t = "datetime"
                            /\ ~IsRaise(InstantOf(pr.v[key]))
                            /\ ev.v.timestamp.v = InstantOf(pr.v[key]).v)

IsPullRequestEvent(pr, ev) ==
    /\ ev.t = "obj"
    /\ ("number" \in DOMAIN pr.v /\ pr.v["number"] = JNum(42))
            => ev.v.request_id = JStr(<<"4", "2">>)
    /\ HoldsAt(pr, "head", "ref", ev.v.from_branch)
    /\ HoldsAt(pr, "base", "ref", ev.v.to_branch)
    /\ HoldsAt(pr, "user", "login", ev.v.author)
    /\ IF IsMerged(pr)
       THEN ev.v.action = JStr(<<"MERGE">>) /\ TimestampIs(ev, pr, "merged_at")
       ELSE ev.v.action = JStr(<<"PULL_REQUEST">>) /\ TimestampIs(ev, pr, "created_at")

WellFormedPullRequest(pl) ==
    /\ "action" \in DOMAIN pl.v
    /\ pl.v["action"].t = "str"
    /\ pl.v["action"].v \in {<<"opened">>, <<"closed">>, <<"synchronize">>}
    /\ Opt(PullRequestOf(pl), "head", {"obj"})
    /\ Opt(PullRequestOf(pl), "base", {"obj"})
    /\ Opt(PullRequestOf(pl), "user", {"obj"})
    /\ UsableTime(PullRequestOf(pl), IF IsMerged(PullRequestOf(pl))
                                     THEN "merged_at" ELSE "created_at")

\* C12 as stated: a pull_request payload with merged = true and a non-empty
\* merged_at is normalised to a MERGE event stamped merged_at (request_id the
\* PR number as a string, from_branch the head ref, to_branch the base ref,
\* author the user login); any other pull_request payload to a PULL_REQUEST
\* event stamped created_at.
C12_Original ==
    (NzReturned(<<"pull_request">>) /\ HasPullRequest(nz.payload))
        => IsPullRequestEvent(PullRequestOf(nz.payload), nz.result)

\* C12 (amended): the same, for the pull_request payloads whose action is
\* opened, closed or synchronize, whose head, base and user are objects when
\* present and whose merged_at (when merged) or created_at (otherwise) is an
\* ISO-8601 string, absent, empty or null.
C12_ProcessedPullRequestIsEvent ==
    (NzReturned(<<"pull_request">>) /\ HasPullRequest(nz.payload)
                                    /\ WellFormedPullRequest(nz.payload))
        => IsPullRequestEvent(PullRequestOf(nz.payload), nz.result)

C12_Witness ==
    /\ NzReturned(<<"pull_request">>)
    /\ HasPullRequest(nz.payload)
    /\ WellFormedPullRequest(nz.payload)
    /\ IsMerged(PullRequestOf(nz.payload))
    /\ nz.result.t = "obj"
    /\ nz.result.v.action = JStr(<<"MERGE">>)
    /\ nz.result.v.timestamp = DateTime(20, TRUE)
    /\ nz.result.v.request_id = JStr(<<"4", "2">>)

\* C13: a push payload with no commits (the list absent or empty) is
\* normalised to null, whatever its other fields hold.
C13_NoCommitsIsNull ==
    (NzReturned(<<"push">>)
        /\ ("commits" \notin DOMAIN nz.payload.v \/ nz.payload.v["commits"] = JList(<<>>)))
        => nz.result = None

C13_Witness ==
    /\ NzReturned(<<"push">>)
    /\ "commits" \in DOMAIN nz.payload.v
    /\ nz.payload.v["commits"] = JList(<<>>)
    /\ "ref" \in DOMAIN nz.payload.v
    /\ nz.payload.v["ref"] = None
    /\ nz.result = None

\* C14: a pull_request payload whose top-level action is not opened, closed or
\* synchronize (or is absent) is normalised to null, merged or not.
C14_OtherActionIsNull ==
    (NzReturned(<<"pull_request">>)
        /\ ("action" \notin DOMAIN nz.payload.v
            \/ nz.payload.v["action"] \notin {JStr(<<"opened">>), JStr(<<"closed">>),
                                              JStr(<<"synchronize">>)}))
        => nz.result = None

C14_Witness ==
    /\ NzReturned(<<"pull_request">>)
    /\ "action" \in DOMAIN nz.payload.v
    /\ nz.payload.v["action"] = JStr(<<"labeled">>)
    /\ HasPullRequest(nz.payload)
    /\ IsMerged(PullRequestOf(nz.payload))
    /\ UsableTime(PullRequestOf(nz.payload), "merged_at")
    /\ nz.result = None

\* C15: every event the normaliser returns for a push or pull_request payload
\* has a non-null to_branch, whatever the shape of the payload.
C15_ToBranchNonNull ==
    (nz.pc = "returned" /\ nz.event_type \in {<<"push">>, <<"pull_request">>}
                        /\ nz.result.t = "obj")
        => nz.result.v.to_branch # None

(***************************************************************************)
(* Claims about the event store and the queries                            *)
(***************************************************************************)
\* a query has returned and the storage answered it
Queried == qs.pc \in {"get_events", "events_since"} /\ qs.storage = "ok"

\* the events the query returned
QueryResult ==
    IF qs.pc = "get_events" THEN qs.response.body.v.events.v ELSE qs.result

\* the instant of a returned event, read from its ISO text
TimeOf(e) == IsoInstant(e.v.timestamp.v[1])

Returned(doc) == \E i \in 1..Len(QueryResult) : QueryResult[i].v.request_id = doc.request_id

\* the stored events the query's `since` does not exclude
Eligible(doc) == qs.since.t = "datetime" => doc.timestamp.v > qs.since.v

EligibleCount == Cardinality({i \in 1..Len(events) : Eligible(events[i])})

NewestFirst ==
    \A i \in 1..Len(QueryResult) : \A j \in 1..Len(QueryResult) :
        i < j => TimeOf(QueryResult[i]) >= TimeOf(QueryResult[j])

\* no event left out is more recent than an event returned
MostRecent ==
    \A i \in 1..Len(events) : \A j \in 1..Len(QueryResult) :
        (Eligible(events[i]) /\ ~Returned(events[i]))
            => events[i].timestamp.v <= TimeOf(QueryResult[j])

\* C16: for any stored events and any integer limit N, the query returns the
\* events newest first, never more than N of them, and they are the N most
\* recent ones (all of them when fewer than N are stored).
C16_NewestFirstAtMostLimit ==
    Queried => /\ Len(QueryResult) <= qs.limit.v
               /\ NewestFirst
               /\ MostRecent
               /\ EligibleCount <= qs.limit.v => Len(QueryResult) = EligibleCount

\* the limit cut the result short
Truncated ==
    /\ qs.limit.v # 0
    /\ Len(QueryResult) = (IF qs.limit.v < 0 THEN -qs.limit.v ELSE qs.limit.v)

\* C17: a query with `since` returns only stored events whose timestamp is
\* strictly later than `since` (an equal timestamp is left out) and leaves out
\* no such event unless the limit truncates; without `since` no event is
\* filtered out.
C17_SinceIsStrictFilter ==
    Queried =>
        /\ \A j \in 1..Len(QueryResult) :
             /\ \E i \in 1..Len(events) :
                  /\ events[i].request_id = QueryResult[j].v.request_id
                  /\ events[i].timestamp.v = TimeOf(QueryResult[j])
             /\ qs.since.t = "datetime" => TimeOf(QueryResult[j]) > qs.since.v
        /\ (\E i \in 1..Len(events) : Eligible(events[i]) /\ ~Returned(events[i]))
               => Truncated

C17_Witness ==
    /\ Queried
    /\ qs.since.t = "datetime"
    /\ \E i \in 1..Len(events) : events[i].timestamp.v = qs.since.v
    /\ \E i \in 1..Len(events) : events[i].timestamp.v < qs.since.v
    /\ \E i \in 1..Len(events) : events[i].timestamp.v > qs.since.v /\ Returned(events[i])
    /\ ~Truncated

\* C18: a stored event stays stored with the same fields in every later
\* state: no save (also of an event with the same request_id and other
\* fields) and no query changes or removes it.
C18_StoredEventsStay ==
    [][\A i \in 1..Len(events) : i <= Len(events') /\ events'[i] = events[i]]_vars

C18_Witness ==
    /\ qs.pc = "save_event"
    /\ qs.ending = "duplicate"
    /\ \E i \in 1..Len(events) :
         /\ events[i].request_id = qs.event.v.request_id
         /\ events[i].author # qs.event.v.author
         /\ events[i].to_branch # qs.event.v.to_branch

\* a step from one answered query to the same query again
SameQueryAgain ==
    /\ qs.pc = qs'.pc
    /\ qs.pc \in {"get_events", "events_since"}
    /\ qs.storage \in {"ok", "unused"}
    /\ qs'.storage = qs.storage
    /\ qs'.since = qs.since
    /\ qs'.limit = qs.limit
    /\ qs.pc = "get_events" => qs'.args = qs.args

Without(args, key) == JObj([k \in DOMAIN args.v \ {key} |-> args.v[k]])

\* the query string carries a since that is not an ISO-8601 instant
SinceUnparseable(args) ==
    /\ "since" \in DOMAIN args.v
    /\ Truthy(args.v["since"])
    /\ IsRaise(InstantOf(args.v["since"]))

\* C20: a since that does not parse is ignored, not rejected: the response is
\* the one the same request without since gets, and it is the success
\* response (whenever the limit is an integer).
C20_UnparseableSinceIgnored ==
    (qs.pc = "get_events" /\ SinceUnparseable(qs.args)) =>
        /\ qs.since = None
        /\ qs.response = get_events(Without(qs.args, "since"), events, qs.storage)
        /\ ~IsRaise(qs.limit) => /\ qs.response.status = 200
                                 /\ qs.response.body.v.success = JBool(TRUE)

C20_Witness ==
    /\ qs.pc = "get_events"
    /\ SinceUnparseable(qs.args)
    /\ qs.storage = "ok"
    /\ Len(events) >= 2
    /\ qs.response.status = 200
    /\ Len(QueryResult) = Len(events)

(***************************************************************************)
(* Claims about timestamps, branch names and pull-request numbers          *)
(***************************************************************************)
\* a push payload with a commit, well-formed apart from the commit's timestamp
PushShapeOk(pl) ==
    /\ HasCommits(pl)
    /\ Opt(pl, "ref", {"str"})
    /\ Opt(pl, "pusher", {"obj"})
    /\ FirstCommit(pl).t = "obj"
    /\ Opt(FirstCommit(pl), "id", {"str"})
    /\ Opt(FirstCommit(pl), "author", {"obj"})

HasTimestamp(pl, value) ==
    "timestamp" \in DOMAIN FirstCommit(pl).v /\ FirstCommit(pl).v["timestamp"] = value

\* the commit has no timestamp (the key is absent or holds null)
NoTimestamp(pl) == "timestamp" \notin DOMAIN FirstCommit(pl).v \/ HasTimestamp(pl, None)

EventAt(ev, timestamp) == ev.t = "obj" /\ ev.v.timestamp = timestamp

\* the event carries the commit's timestamp when that is an ISO-8601 string
CommitTimeKept(pl, ev) ==
    /\ HasTimestamp(pl, JStr(<<"2024-01-01T00:00:00", "Z">>)) => EventAt(ev, DateTime(10, TRUE))
    /\ HasTimestamp(pl, JStr(<<"2024-01-15T00:00:00">>)) => EventAt(ev, DateTime(15, FALSE))

\* C21 as stated: for a push payload with a commit the event's timestamp is
\* the commit's timestamp when it parses as ISO-8601 (a trailing Z read as
\* UTC) and the current time when it is absent or does not parse; a timestamp
\* that does not parse does not make the normaliser return null.
C21_Original ==
    (NzReturned(<<"push">>) /\ PushShapeOk(nz.payload)) =>
        /\ CommitTimeKept(nz.payload, nz.result)
        /\ (NoTimestamp(nz.payload) \/ HasTimestamp(nz.payload, UnparseableTime))
               => EventAt(nz.result, DateTime(nz.now, FALSE))

\* C21 (amended): the event's timestamp is the commit's timestamp when it
\* parses as ISO-8601 (a trailing Z read as UTC) and the current time when it
\* is absent or null; a timestamp that does not parse makes the normaliser
\* return null.
C21_TimestampParsedOrDefault ==
    (NzReturned(<<"push">>) /\ PushShapeOk(nz.payload)) =>
        /\ CommitTimeKept(nz.payload, nz.result)
        /\ NoTimestamp(nz.payload) => EventAt(nz.result, DateTime(nz.now, FALSE))
        /\ HasTimestamp(nz.payload, UnparseableTime) => nz.result = None

C21_Witness ==
    /\ NzReturned(<<"push">>)
    /\ PushShapeOk(nz.payload)
    /\ "timestamp" \notin DOMAIN FirstCommit(nz.payload).v
    /\ EventAt(nz.result, DateTime(30, FALSE))
    /\ nz.result.v.request_id = JStr(<<"a", "b", "c", "d", "e", "f", "1">>)

\* the ref without its leading refs/heads/, or the ref itself when it has none
LeadingPrefixRemoved(ref) ==
    IF Len(ref) > 0 /\ ref[1] = "refs/heads/" THEN SubSeq(ref, 2, Len(ref)) ELSE ref

\* C22: for a push event to_branch is ref with a leading refs/heads/ removed
\* when ref starts with it, and ref verbatim otherwise; only the leading
\* prefix is removed, a later refs/heads/ inside the branch name is kept.
C22_OnlyLeadingPrefixRemoved ==
    (NzReturned(<<"push">>) /\ nz.result.t = "obj" /\ "ref" \in DOMAIN nz.payload.v)
        => nz.result.v.to_branch = JStr(LeadingPrefixRemoved(nz.payload.v["ref"].v))

\* the request_id of pull request 42
PrNumber == JStr(<<"4", "2">>)

\* the i-th save_event call was for pull request 42 with this event action
SaveOf(i, action) ==
    /\ saveLog[i].request_id = PrNumber
    /\ event_data[saveLog[i].w].v.action = JStr(action)

\* a PULL_REQUEST event for the pull request was written by a call before the i-th
OpenedStoredBefore(i) ==
    \E k \in 1..Len(saveLog) : k < i /\ SaveOf(k, <<"PULL_REQUEST">>) /\ saveLog[k].wrote

\* C23: at most one event per pull-request number is stored; once the
\* PULL_REQUEST event of a pull request is stored, a later closed-and-merged
\* delivery for the same number is suppressed as a duplicate: it writes
\* nothing, no MERGE event for that number is stored then or later, and the
\* delivery is answered with success.
C23_MergeSuppressedAfterOpen ==
    /\ Cardinality(RecordsWith(PrNumber)) <= 1
    /\ \A i \in 1..Len(saveLog) :
         (SaveOf(i, <<"PULL_REQUEST">>) /\ saveLog[i].wrote)
             => \A r \in RecordsWith(PrNumber) : events[r].action = JStr(<<"PULL_REQUEST">>)
    /\ \A i \in 1..Len(saveLog) :
         (SaveOf(i, <<"MERGE">>) /\ OpenedStoredBefore(i))
             => /\ ~saveLog[i].wrote
                /\ saveLog[i].outcome \in {"duplicate", "error"}
                /\ Done(saveLog[i].w)
                /\ Status(saveLog[i].w) = 200
                /\ Message(saveLog[i].w) = "Event received (may be duplicate)"

C23_Witness ==
    \E i \in 1..Len(saveLog) :
        /\ SaveOf(i, <<"MERGE">>)
        /\ OpenedStoredBefore(i)
        /\ saveLog[i].outcome = "duplicate"
        /\ payload[saveLog[i].w] = PrMerged
        /\ Status(saveLog[i].w) = 200
        /\ Len(events) = 1
        /\ events[1].action = JStr(<<"PULL_REQUEST">>)

\* the storage failed during the query
StorageFailed == qs.storage \in {"unreached", "no_db"}

\* C24: when the storage fails during a query (no database, unreachable or
\* timed out), the query returns the empty sequence and GET /api/events
\* answers with the success response and count 0, the very response an empty
\* store gets; its server-error response never comes from a storage failure.
C24_StorageFailureLooksEmpty ==
    /\ (qs.pc = "events_since" /\ StorageFailed) => qs.result = <<>>
    /\ (qs.pc = "get_events" /\ StorageFailed) =>
           /\ qs.response.status = 200
           /\ qs.response.body.v.success = JBool(TRUE)
           /\ qs.response.body.v.events = JList(<<>>)
           /\ qs.response.body.v.count = JNum(0)
           /\ qs.response = get_events(qs.args, <<>>, "ok")
    /\ (qs.pc = "get_events" /\ qs.response.status = 500) =>
           (qs.storage = "unused" /\ IsRaise(qs.limit))

C24_Witness ==
    /\ qs.pc = "get_events"
    /\ qs.storage = "unreached"
    /\ Len(events) >= 2
    /\ qs.response.status = 200
    /\ qs.response.body.v.count = JNum(0)

====
